---- MODULE Spec2Model ----
(***************************************************************************)
(* A model of qtfile.py: the atom tree reader (Atom.read, read_header,     *)
(* read_struct, read_data), the atom writer (Atom.write, write_header,     *)
(* write_data, write_end, PassthroughAtom.write), Atom.size, Atom.free and *)
(* QuickTimeFile.read.                                                     *)
(*                                                                         *)
(* The byte source is a sequence of bytes.  Field widths are those of the  *)
(* code (4-byte size, 4-byte type tag, 8-byte extended size, 4-byte        *)
(* terminating null); a byte holds one of Radix values instead of 256, so  *)
(* the 4-byte size field holds 0 .. Radix^4 - 1 where the code's holds     *)
(* 0 .. 2^32 - 1.                                                          *)
(***************************************************************************)
EXTENDS Integers, Sequences, FiniteSets, TLC

VARIABLES
    source,   \* the bytes of the stream handed to QuickTimeFile.read
    pos,      \* the stream's cursor (stream.tell())
    stack,    \* the active Atom.read invocations, outermost first
    movie,    \* the QuickTimeFile: its list of root atoms
    last,     \* the most recent call on the movie or one of its atoms, and its result
    calls     \* how many read() and free() calls were made

vars == <<source, pos, stack, movie, last, calls>>

\* ------------------------------------------------------------------ bounds

Radix == 2       \* values a byte can hold
MaxWords == 5    \* length of the source, in 4-byte words
MaxAtoms == 4    \* atoms one Atom.read invocation collects before the model stops following it
MaxReads == 2    \* QuickTimeFile.read calls
MaxFrees == 1    \* Atom.free calls

\* ------------------------------------------------------------------ formats

SizeBytes == 4       \* ">L" of header = ">L4s"
KindBytes == 4       \* "4s" of header = ">L4s"
ExtSizeBytes == 8    \* header_extsize = ">Q"
NullBytes == 4       \* "\x00"*4

HeaderBytes == SizeBytes + KindBytes    \* struct.calcsize(self.header)

RECURSIVE Pow(_, _)
Pow(b, n) == IF n = 0 THEN 1 ELSE b * Pow(b, n - 1)

Min(a, b) == IF a < b THEN a ELSE b

\* stream bytes [a, b), 0-based, as far as the stream has them
Slice(s, a, b) == IF a >= Len(s) \/ b <= a THEN <<>> ELSE SubSeq(s, a + 1, Min(b, Len(s)))

\* struct.unpack of a big-endian unsigned field
RECURSIVE unpack(_)
unpack(bs) ==
    IF bs = <<>> THEN 0
    ELSE unpack(SubSeq(bs, 1, Len(bs) - 1)) * Radix + bs[Len(bs)]

\* struct.pack of a big-endian unsigned field of n bytes; raises struct.error
\* when the value does not fit
pack_fits(v, n) == v >= 0 /\ v < Pow(Radix, n)
pack(v, n) == [i \in 1..n |-> (v \div Pow(Radix, n - i)) % Radix]

Zeros(n) == [i \in 1..n |-> 0]

\* ------------------------------------------------------------------ stream

\* stream.read(n) at cursor p: the bytes and the cursor afterwards
stream_read(p, n) ==
    LET buf == Slice(source, p, p + n)
    IN  [buf |-> buf, pos |-> p + Len(buf)]

\* read_struct(stream, format) for a format of n bytes
read_struct(p, n) ==
    LET r == stream_read(p, n)
    IN  IF Len(r.buf) = 0 THEN [status |-> "eof", value |-> <<>>, pos |-> r.pos]
        ELSE IF Len(r.buf) # n THEN [status |-> "error", value |-> <<>>, pos |-> r.pos]
        ELSE [status |-> "ok", value |-> r.buf, pos |-> r.pos]

\* Atom.read_header: (size, kind, extended) or the exception raised
read_header(p) ==
    LET h == read_struct(p, HeaderBytes)
        sz == unpack(SubSeq(h.value, 1, SizeBytes))
        kind == SubSeq(h.value, SizeBytes + 1, HeaderBytes)
        none == [size |-> 0, kind |-> <<>>, extended |-> FALSE]
    IN  IF h.status # "ok" THEN [status |-> h.status, pos |-> h.pos] @@ none
        ELSE IF Len(kind) = 0 THEN [status |-> "error", pos |-> h.pos] @@ none
        ELSE IF sz = 1 THEN
            LET e == read_struct(h.pos, ExtSizeBytes)
            IN  IF e.status # "ok" THEN [status |-> e.status, pos |-> e.pos] @@ none
                ELSE [status |-> "ok", pos |-> e.pos, size |-> unpack(e.value),
                      kind |-> kind, extended |-> TRUE]
        ELSE IF sz = 0 THEN [status |-> "error", pos |-> h.pos] @@ none
        ELSE [status |-> "ok", pos |-> h.pos, size |-> sz, kind |-> kind,
              extended |-> FALSE]

\* ------------------------------------------------------------------ atom classes

\* type tags: opaque 4-byte strings
LeafKind == pack(12, KindBytes)
ContainerKind == pack(8, KindBytes)
FreeKind == <<1, 1, 1, 1>>    \* "free"

\* The class attributes of Atom the engine reads (supported_types, container,
\* field_defs as the byte width of each field's format, trailing_null,
\* force_child_class).  LeafAtom and ContainerAtom are the registered classes;
\* neither sets force_child_class, so every handler is found by type.
PassthroughAtom ==
    [name |-> "PassthroughAtom", supported_types |-> {}, container |-> FALSE,
     field_defs |-> <<>>, trailing_null |-> FALSE, force_child_class |-> "None"]
LeafAtom ==
    [name |-> "LeafAtom", supported_types |-> {LeafKind}, container |-> FALSE,
     field_defs |-> <<SizeBytes>>, trailing_null |-> FALSE, force_child_class |-> "None"]
ContainerAtom ==
    [name |-> "ContainerAtom", supported_types |-> {ContainerKind}, container |-> TRUE,
     field_defs |-> <<>>, trailing_null |-> TRUE, force_child_class |-> "None"]

atom_classes == <<LeafAtom, ContainerAtom>>

Class(name) ==
    CASE name = "LeafAtom" -> LeafAtom
      [] name = "ContainerAtom" -> ContainerAtom
      [] OTHER -> PassthroughAtom

\* cls.supports_type(kind)
supports_type(c, kind) == kind \in c.supported_types

\* the handler lookup of Atom.read: force_class, else the first class of the
\* registry that supports the type, else None
find_handler(kind, force_class) ==
    IF force_class # "None" THEN force_class
    ELSE LET hits == {i \in 1..Len(atom_classes) : supports_type(atom_classes[i], kind)}
         IN  IF hits = {} THEN "None"
             ELSE atom_classes[CHOOSE i \in hits : \A j \in hits : i <= j].name

\* ------------------------------------------------------------------ atoms

\* Atom.__init__.  p_offset and p_size are PassthroughAtom's _offset and _size.
\* at and declared are history: Atom.read notes in them where it parsed the
\* atom's header and the size the header declared; no operation reads them.
new_atom(cls, kind) ==
    [cls |-> cls, kind |-> kind, fields |-> <<>>, children |-> <<>>,
     extended_header |-> FALSE, terminating_null |-> FALSE,
     p_offset |-> 0, p_size |-> 0, at |-> 0, declared |-> 0]

\* PassthroughAtom.__init__(kind, source, offset, size)
new_passthrough(kind, offset, size_) ==
    [new_atom("PassthroughAtom", kind) EXCEPT !.p_offset = offset, !.p_size = size_]

RECURSIVE SumSeq(_)
SumSeq(s) == IF s = <<>> THEN 0 ELSE s[1] + SumSeq(Tail(s))

\* Atom.size / PassthroughAtom.size
RECURSIVE size(_)
size(a) ==
    IF a.cls = "PassthroughAtom" THEN a.p_size
    ELSE HeaderBytes
         + (IF a.extended_header THEN ExtSizeBytes ELSE 0)
         + SumSeq(Class(a.cls).field_defs)
         + SumSeq([i \in 1..Len(a.children) |-> size(a.children[i])])
         + (IF a.terminating_null THEN NullBytes ELSE 0)

\* Atom.read_data: the fields read per field_defs, or the exception raised
RECURSIVE read_fields(_, _, _)
read_fields(defs, p, got) ==
    IF defs = <<>> THEN [status |-> "ok", fields |-> got, pos |-> p]
    ELSE LET r == read_struct(p, defs[1])
         IN  IF r.status # "ok" THEN [status |-> r.status, fields |-> got, pos |-> r.pos]
             ELSE read_fields(Tail(defs), r.pos, Append(got, unpack(r.value)))

read_data(cls, p) == read_fields(Class(cls).field_defs, p, <<>>)

\* ------------------------------------------------------------------ writing

\* Atom.write_header: the bytes written, and whether struct.pack raised
write_header(a) ==
    IF a.extended_header \/ size(a) > Pow(Radix, SizeBytes)
    THEN IF pack_fits(size(a), ExtSizeBytes)
         THEN [out |-> pack(1, SizeBytes) \o a.kind \o pack(size(a), ExtSizeBytes),
               raised |-> FALSE]
         ELSE [out |-> pack(1, SizeBytes) \o a.kind, raised |-> TRUE]
    ELSE IF pack_fits(size(a), SizeBytes)
         THEN [out |-> pack(size(a), SizeBytes) \o a.kind, raised |-> FALSE]
         ELSE [out |-> <<>>, raised |-> TRUE]

\* Atom.write_data: the fields, packed in field_defs order
RECURSIVE write_fields(_, _)
write_fields(defs, fields) ==
    IF defs = <<>> THEN <<>>
    ELSE pack(fields[1], defs[1]) \o write_fields(Tail(defs), Tail(fields))

write_data(a) == write_fields(Class(a.cls).field_defs, a.fields)

\* Atom.write_end
write_end(a) == IF a.terminating_null THEN Zeros(NullBytes) ELSE <<>>

\* Atom.write(stream, recursive=True) to a fresh sink: the bytes written, whether
\* an exception left the call, whether the partial-write warning was logged, and
\* the source's cursor afterwards
Atom_write(a, p) ==
    LET h == write_header(a)
        out == h.out \o write_data(a) \o write_end(a)
    IN  IF h.raised THEN [out |-> h.out, raised |-> TRUE, partial |-> FALSE, pos |-> p]
        ELSE [out |-> out, raised |-> FALSE, partial |-> Len(out) # size(a), pos |-> p]

\* PassthroughAtom.write without its seek: it copies from wherever the cursor is
PassthroughAtom_write_noseek(a, p) ==
    LET r == stream_read(p, a.p_size)
    IN  [out |-> r.buf, raised |-> FALSE, partial |-> FALSE, pos |-> r.pos]

\* PassthroughAtom.write
PassthroughAtom_write(a, p) ==
    LET r == stream_read(a.p_offset, a.p_size)
    IN  [out |-> r.buf, raised |-> FALSE, partial |-> FALSE, pos |-> r.pos]

write(a, p) ==
    IF a.cls = "PassthroughAtom" THEN PassthroughAtom_write(a, p) ELSE Atom_write(a, p)

\* Atom.free
free(a) == [a EXCEPT !.kind = FreeKind]

\* ------------------------------------------------------------------ the movie

\* list.__eq__ on two atoms: Atom subclasses list and defines no __eq__, so two
\* atoms are equal when their children are, pairwise
RECURSIVE list_eq(_, _)
list_eq(a, b) ==
    /\ Len(a.children) = Len(b.children)
    /\ \A i \in 1..Len(a.children) : list_eq(a.children[i], b.children[i])

\* list.remove(a): drops the first element equal to a
list_remove(l, a) ==
    LET hits == {i \in 1..Len(l) : list_eq(l[i], a)}
        k == CHOOSE i \in hits : \A j \in hits : i <= j
    IN  IF hits = {} THEN l
        ELSE [i \in 1..(Len(l) - 1) |-> IF i < k THEN l[i] ELSE l[i + 1]]

\* "for a in self: self.remove(a)": the list iterator visits index 0, 1, 2, ...
\* of the list as it is at each step
RECURSIVE remove_loop(_, _)
remove_loop(l, i) ==
    IF i > Len(l) THEN l ELSE remove_loop(list_remove(l, l[i]), i + 1)

clear_roots(l) == remove_loop(l, 1)

\* the atoms of a tree, each named by the path of child indices leading to it
RECURSIVE Paths(_)
Paths(atoms) ==
    UNION {{<<i>>} \cup {<<i>> \o q : q \in Paths(atoms[i].children)} : i \in 1..Len(atoms)}

RECURSIVE AtomAt(_, _)
AtomAt(atoms, path) ==
    IF Len(path) = 1 THEN atoms[path[1]]
    ELSE AtomAt(atoms[path[1]].children, Tail(path))

RECURSIVE ReplaceAt(_, _, _)
ReplaceAt(atoms, path, a) ==
    IF Len(path) = 1 THEN [atoms EXCEPT ![path[1]] = a]
    ELSE [atoms EXCEPT ![path[1]].children = ReplaceAt(@, Tail(path), a)]

\* ------------------------------------------------------------------ state

NoAtom == new_atom("None", <<>>)

\* one invocation of Atom.read: its parameters, its locals and where it is
\*   pc = "loop"       at the while test (line 193)
\*        "children"   in the recursive call for the children (line 219)
\*        "reconcile"  the atom is built (line 222)
\*        "null"       the cursor is reconciled (line 251)
\*        "return"     the loop is left; stop says how: "eof" (QuickTimeEOF),
\*                     "error" (QuickTimeParseError), "one" (end = -1)
\* child is history: how the recursive call for the current atom's children
\* ended ("end" when its while test failed).
new_frame(end, parent, force_class) ==
    [end |-> end, parent |-> parent, force_class |-> force_class, atoms |-> <<>>,
     pc |-> "loop", stop |-> "none", offset |-> 0, size |-> 0, extended |-> FALSE,
     atom |-> NoAtom, child |-> "none"]

NoCall == [op |-> "none", path |-> <<>>, out |-> <<>>, raised |-> FALSE,
           partial |-> FALSE, atoms |-> <<>>, before |-> <<>>]

\* the 4-byte words the sources are made of: as a size field 0 (unsupported),
\* 1 (extended size follows), 8 and 12; as a type tag ContainerKind (8),
\* LeafKind (12) and two unregistered tags, one of them null
WordValues == {0, 1, 8, 12}
Words == {pack(v, SizeBytes) : v \in WordValues}

RECURSIVE Flatten(_)
Flatten(ws) == IF ws = <<>> THEN <<>> ELSE ws[1] \o Flatten(Tail(ws))

\* the sources: every stream of up to MaxWords words, and every stream of
\* MaxWords + 1 words that starts with the header of an extended container
\* (whose 16-byte header leaves room for children only in a longer stream)
Sources ==
    UNION {{Flatten(ws) : ws \in [1..n -> Words]} : n \in 0..MaxWords}
      \cup {pack(1, SizeBytes) \o ContainerKind \o Flatten(ws) :
              ws \in [1..(MaxWords - 1) -> Words]}

Init ==
    /\ source \in Sources
    /\ pos = 0
    /\ stack = <<>>
    /\ movie = <<>>
    /\ last = NoCall
    /\ calls = [reads |-> 0, frees |-> 0]

Top == stack[Len(stack)]
SetTop(f) == [stack EXCEPT ![Len(stack)] = f]

\* the while test of Atom.read
loop_test(f) == f.end <= 0 \/ pos < f.end

\* ------------------------------------------------------------------ reading

\* QuickTimeFile.read, up to the call of Atom.read
MovieRead ==
    /\ stack = <<>>
    /\ calls.reads < MaxReads
    /\ movie' = clear_roots(movie)
    /\ stack' = <<new_frame(0, "movie", "None")>>
    /\ last' = [NoCall EXCEPT !.op = "reading", !.before = movie]
    /\ calls' = [calls EXCEPT !.reads = @ + 1]
    /\ UNCHANGED <<source, pos>>

\* what one pass through the try block of Atom.read (lines 195-240) does to the
\* frame f with the cursor at p: the frame afterwards, the cursor afterwards,
\* and the frame of the recursive call if the atom is a container
read_atom(f, p) ==
    LET offset == p
        h == read_header(p)
        handler == find_handler(h.kind, f.force_class)
        d == read_data(handler, h.pos)
        g == [f EXCEPT !.offset = offset, !.size = h.size, !.extended = h.extended,
                       !.child = "none"]
        atom == [new_atom(handler, h.kind) EXCEPT !.fields = d.fields]
        none == <<>>
    IN  IF h.status # "ok"
        THEN [frame |-> [f EXCEPT !.pc = "return", !.stop = h.status],
              pos |-> h.pos, call |-> none]
        ELSE IF handler = "None"
        THEN [frame |-> [g EXCEPT !.pc = "reconcile",
                                  !.atom = new_passthrough(h.kind, offset, h.size)],
              pos |-> h.pos, call |-> none]
        ELSE IF d.status # "ok"
        THEN [frame |-> [f EXCEPT !.pc = "return", !.stop = d.status],
              pos |-> d.pos, call |-> none]
        ELSE IF Class(handler).container
        THEN [frame |-> [g EXCEPT !.pc = "children", !.atom = atom],
              pos |-> d.pos,
              call |-> <<new_frame(offset + h.size, "atom",
                                   Class(handler).force_child_class)>>]
        ELSE [frame |-> [g EXCEPT !.pc = "reconcile", !.atom = atom],
              pos |-> d.pos, call |-> none]

ReadAtom ==
    /\ stack # <<>>
    /\ Top.pc = "loop"
    /\ loop_test(Top)
    /\ Len(Top.atoms) < MaxAtoms
    /\ LET r == read_atom(Top, pos)
       IN  /\ stack' = SetTop(r.frame) \o r.call
           /\ pos' = r.pos
    /\ UNCHANGED <<source, movie, last, calls>>

\* how the loop of frame f was left
stop_of(f) == IF f.pc = "loop" THEN "end" ELSE f.stop

\* a returning Atom.read that raises its parse error again instead of returning:
\* the except clause of the enclosing level then leaves that level's loop, and
\* the container is not appended
return_to_raising(st, atoms) ==
    LET n == Len(st)
        failed == st[n].pc = "return" /\ st[n].stop = "error"
    IN  [i \in 1..(n - 1) |->
            IF i = n - 1
            THEN IF failed
                 THEN [st[i] EXCEPT !.pc = "return", !.stop = "error"]
                 ELSE [st[i] EXCEPT !.pc = "reconcile", !.atom.children = @ \o atoms,
                                    !.child = stop_of(st[n])]
            ELSE st[i]]

\* what the caller of a returning Atom.read does with the atoms: Atom.read
\* appends them to the container it is building (lines 219-220),
\* QuickTimeFile.read appends them to the movie (lines 96-97)
return_to(st, atoms) ==
    LET n == Len(st)
    IN  [i \in 1..(n - 1) |->
            IF i = n - 1
            THEN [st[i] EXCEPT !.pc = "reconcile", !.atom.children = @ \o atoms,
                               !.child = stop_of(st[n])]
            ELSE st[i]]

Return ==
    /\ stack # <<>>
    /\ Top.pc = "return" \/ (Top.pc = "loop" /\ ~loop_test(Top))
    /\ stack' = return_to(stack, Top.atoms)
    /\ IF Len(stack) = 1
       THEN /\ movie' = movie \o Top.atoms
            /\ last' = [last EXCEPT !.op = "read", !.atoms = Top.atoms]
       ELSE UNCHANGED <<movie, last>>
    /\ UNCHANGED <<source, pos, calls>>

\* lines 222-247 seeking ahead only: an atom that consumed more than it declared
\* leaves the cursor where it is
reconcile_ahead_only(f) ==
    [frame |-> [f EXCEPT !.pc = "null",
                         !.atom.extended_header = f.extended,
                         !.atom.at = f.offset,
                         !.atom.declared = f.size],
     pos |-> IF pos < f.offset + f.size THEN f.offset + f.size ELSE pos]

\* lines 222-247: the atom gets its extended_header, and the cursor is moved to
\* the end the header declared
reconcile(f) ==
    [frame |-> [f EXCEPT !.pc = "null",
                         !.atom.extended_header = f.extended,
                         !.atom.at = f.offset,
                         !.atom.declared = f.size],
     pos |-> f.offset + f.size]

Reconcile ==
    /\ stack # <<>>
    /\ Top.pc = "reconcile"
    /\ LET r == reconcile(Top)
       IN  /\ stack' = SetTop(r.frame)
           /\ pos' = r.pos
    /\ UNCHANGED <<source, movie, last, calls>>

\* line 251: the parent is an Atom of a class with trailing_null and exactly 4
\* bytes are left before end
null_test(st, p) ==
    LET n == Len(st)
    IN  /\ st[n].parent = "atom"
        /\ Class(st[n - 1].atom.cls).trailing_null
        /\ st[n].end - p = NullBytes

\* lines 251-259: the terminating null is consumed, the atom is appended
terminating_null(st, p) ==
    LET n == Len(st)
        f == st[n]
        done == [f EXCEPT !.atoms = Append(@, f.atom), !.atom = NoAtom,
                          !.pc = IF f.end = -1 THEN "return" ELSE "loop",
                          !.stop = IF f.end = -1 THEN "one" ELSE "none"]
    IN  IF null_test(st, p)
        THEN [stack |-> [st EXCEPT ![n] = done, ![n - 1].atom.terminating_null = TRUE],
              pos |-> stream_read(p, NullBytes).pos]
        ELSE [stack |-> [st EXCEPT ![n] = done], pos |-> p]

TerminatingNull ==
    /\ stack # <<>>
    /\ Top.pc = "null"
    /\ LET r == terminating_null(stack, pos)
       IN  /\ stack' = r.stack
           /\ pos' = r.pos
    /\ UNCHANGED <<source, movie, last, calls>>

\* ------------------------------------------------------------------ the caller

\* atom.write(sink) on an atom of the movie, with a fresh sink
AtomWrite ==
    /\ stack = <<>>
    /\ \E path \in Paths(movie) :
        LET w == write(AtomAt(movie, path), pos)
        IN  /\ pos' = w.pos
            /\ last' = [NoCall EXCEPT !.op = "write", !.path = path, !.out = w.out,
                                      !.raised = w.raised, !.partial = w.partial]
    /\ UNCHANGED <<source, stack, movie, calls>>

\* atom.free() on an atom of the movie
Free ==
    /\ stack = <<>>
    /\ calls.frees < MaxFrees
    /\ \E path \in Paths(movie) :
        /\ movie' = ReplaceAt(movie, path, free(AtomAt(movie, path)))
        /\ last' = [NoCall EXCEPT !.op = "free", !.path = path, !.before = movie]
    /\ calls' = [calls EXCEPT !.frees = @ + 1]
    /\ UNCHANGED <<source, pos, stack>>

Next ==
    \/ MovieRead
    \/ ReadAtom
    \/ Return
    \/ Reconcile
    \/ TerminatingNull
    \/ AtomWrite
    \/ Free

Spec == Init /\ [][Next]_vars

\* ------------------------------------------------------------------ claims

\* the atoms of a forest, at any depth
Atoms(atoms) == {AtomAt(atoms, q) : q \in Paths(atoms)}

\* the atoms the running Atom.read invocations have appended so far, and the
\* atoms the last QuickTimeFile.read got from Atom.read
Returned ==
    Atoms(last.atoms) \cup UNION {Atoms(stack[i].atoms) : i \in 1..Len(stack)}

\* the atoms under construction (built, not yet appended)
Building ==
    UNION {Atoms(<<stack[i].atom>>) :
             i \in {j \in 1..Len(stack) : stack[j].pc \in {"children", "reconcile", "null"}}}

\* every list of sibling atoms Atom.read has produced
SiblingLists ==
    {last.atoms} \cup {stack[i].atoms : i \in 1..Len(stack)}
        \cup {a.children : a \in Returned \cup Building \cup Atoms(movie)}

\* the length of the header as it was parsed
header_len(extended) == HeaderBytes + (IF extended THEN ExtSizeBytes ELSE 0)

Written == AtomAt(movie, last.path)

\* C1: an atom whose type no registered class supports (no force_class in
\* effect) is built as a PassthroughAtom bound to the offset of its header and
\* the size the header declared, with only the header consumed; its size is the
\* declared size from then on; and a write of it, wherever the cursor is and
\* whatever was read or written before, emits exactly the source bytes
\* [offset, offset + declared size).
C1_PassthroughRoundTrip ==
    /\ (stack # <<>> /\ Top.pc = "reconcile" /\ Top.force_class = "None"
            /\ \A i \in 1..Len(atom_classes) : Top.atom.kind \notin atom_classes[i].supported_types)
        => /\ Top.atom.cls = "PassthroughAtom"
           /\ Top.atom.p_offset = Top.offset
           /\ Top.atom.p_size = Top.size
           /\ pos = Top.offset + header_len(Top.extended)
    /\ \A a \in Returned \cup Atoms(movie) :
          a.cls = "PassthroughAtom" => size(a) = a.declared /\ a.p_offset = a.at
    /\ (last.op = "write" /\ Written.cls = "PassthroughAtom")
        => /\ ~last.raised
           /\ last.out = Slice(source, Written.at, Written.at + Written.declared)
           /\ (Written.at + Written.declared <= Len(source)
                  => Len(last.out) = Written.declared)

\* a passthrough atom with payload that lies wholly inside the source, not at
\* its start, is written after a second read, with the cursor left elsewhere
C1_Witness ==
    /\ last.op = "write"
    /\ Written.cls = "PassthroughAtom"
    /\ Written.at > 0
    /\ Written.at + Written.declared <= Len(source)
    /\ Len(last.out) = Written.declared
    /\ Written.declared > HeaderBytes
    /\ calls.reads = 2

\* C3: whenever an iteration of Atom.read has produced an atom, the cursor is at
\* offset + declared size before the terminating-null test, whether the atom
\* consumed fewer bytes, more bytes or none; so each sibling starts where the
\* sibling before it was declared to end.
C3_PartialReadResilience ==
    /\ (stack # <<>> /\ Top.pc = "null") => pos = Top.offset + Top.size
    /\ \A l \in SiblingLists : \A i \in 1..(Len(l) - 1) :
          l[i + 1].at = l[i].at + l[i].declared

\* a container whose children ran past its declared end has been reconciled:
\* the cursor is back at the container's declared end, inside its last child
C3_Witness ==
    /\ stack # <<>>
    /\ Top.pc = "null"
    /\ Top.atom.children # <<>>
    /\ LET c == Top.atom.children[Len(Top.atom.children)]
       IN  c.at + c.declared > Top.offset + Top.size

\* C5: read_header rejects a null type tag, so no atom Atom.read returns has an
\* empty or null kind.
C5_NoNullKind ==
    \A a \in Returned : a.kind # <<>> /\ a.kind # Zeros(KindBytes)

\* C7: after QuickTimeFile.read returns, the roots are exactly the atoms the
\* tree reader parsed, whatever roots the movie held before.
C7_ReadReplacesRoots ==
    last.op = "read" => movie = last.atoms

\* C10: each iteration of Atom.read that produces an atom leaves the cursor
\* strictly beyond the offset the atom started at (so the loop terminates on a
\* finite source).
C10_IterationAdvances ==
    (stack # <<>> /\ Top.pc = "loop" /\ Top.atoms # <<>>)
        => pos > Top.atoms[Len(Top.atoms)].at

\* C2: an unmodified atom of a registered class whose computed size equals the
\* size its header declared is written back, recursively, as the bytes it was
\* read from, in the extended header form if it was read in that form.
C2_KnownTypeRoundTrip ==
    (/\ last.op = "write"
     /\ calls.frees = 0
     /\ Written.cls # "PassthroughAtom"
     /\ size(Written) = Written.declared)
        => /\ ~last.raised
           /\ last.out = Slice(source, Written.at, Written.at + Written.declared)
           /\ Written.extended_header
                 => SubSeq(last.out, 1, SizeBytes) = pack(1, SizeBytes)

\* the step is one pass of the try block that ends in QuickTimeEOF or
\* QuickTimeParseError
Fails(f, p) ==
    \/ read_header(p).status # "ok"
    \/ /\ find_handler(read_header(p).kind, f.force_class) # "None"
       /\ read_data(find_handler(read_header(p).kind, f.force_class),
                    read_header(p).pos).status # "ok"

\* Error containment, step by step: a parse error or end of source at one level
\* of Atom.read stops that level's loop and nothing else: the atoms the level had completed are what it
\* returns, the frames of the enclosing levels are untouched, the enclosing
\* container gets exactly those atoms as children and is then reconciled and
\* appended to its own level, and the top-level read hands the movie its atoms.
C4_Step ==
    stack # <<>> =>
      LET n == Len(stack)
      IN  /\ (Top.pc = "loop" /\ loop_test(Top) /\ Fails(Top, pos))
                => /\ Len(stack') = n
                   /\ stack'[n].pc = "return"
                   /\ stack'[n].stop \in {"eof", "error"}
                   /\ stack'[n].atoms = Top.atoms
                   /\ \A i \in 1..(n - 1) : stack'[i] = stack[i]
                   /\ movie' = movie
          /\ (Top.pc = "return" /\ Top.stop \in {"eof", "error"} /\ n > 1)
                => /\ Len(stack') = n - 1
                   /\ \A i \in 1..(n - 2) : stack'[i] = stack[i]
                   /\ stack'[n - 1].atoms = stack[n - 1].atoms
                   /\ stack'[n - 1].atom.children = Top.atoms
                   /\ stack'[n - 1].pc = "reconcile"
                   /\ movie' = movie
          /\ (Top.pc = "return" /\ Top.stop \in {"eof", "error"} /\ n = 1)
                => /\ stack' = <<>>
                   /\ last'.op = "read"
                   /\ last'.atoms = Top.atoms
                   /\ \E k \in 0..Len(movie') : movie' = SubSeq(movie', 1, k) \o Top.atoms
          /\ (Top.pc = "reconcile" /\ Top.child \in {"eof", "error"})
                => /\ Len(stack') = n
                   /\ stack'[n].pc = "null"
                   /\ stack'[n].atom.children = Top.atom.children
                   /\ stack'[n].atoms = Top.atoms
                   /\ pos' = Top.offset + Top.size
          /\ (Top.pc = "null" /\ Top.child \in {"eof", "error"})
                => /\ Len(stack') = n
                   /\ stack'[n].atoms = Append(Top.atoms, Top.atom)
                   /\ stack'[n].pc = IF Top.end = -1 THEN "return" ELSE "loop"
                   /\ pos = Top.offset + Top.size

\* C4: every step of the read contains a parse error or end of source at the
\* level it occurred, as C4_Step states.
C4_ErrorContainment == [][C4_Step]_vars

\* a container whose children's level stopped on a parse error or the end of
\* the source after it had completed a child has been appended with that
\* child, and its level is back at its while test
C4_Witness ==
    /\ stack # <<>>
    /\ Top.pc = "loop"
    /\ Top.child \in {"eof", "error"}
    /\ Top.atoms # <<>>
    /\ Top.atoms[Len(Top.atoms)].children # <<>>
    /\ pos = Top.atoms[Len(Top.atoms)].at + Top.atoms[Len(Top.atoms)].declared

\* C6: a container of a class with trailing_null whose last 4 bytes before its
\* declared end are zero and belong to no child (the container may have no
\* children) has terminating_null set by read, and write_end emits the 4 bytes.
C6_TerminatingNull ==
    (/\ stack # <<>>
     /\ Top.pc = "null"
     /\ Class(Top.atom.cls).container
     /\ Class(Top.atom.cls).trailing_null
     /\ Top.offset + Top.size <= Len(source)
     /\ LET c == Top.atom.children
            body == Top.offset + header_len(Top.extended)
                      + SumSeq(Class(Top.atom.cls).field_defs)
        IN  IF c = <<>>
            THEN body = Top.offset + Top.size - NullBytes
            ELSE c[Len(c)].at + c[Len(c)].declared = Top.offset + Top.size - NullBytes
     /\ Slice(source, Top.offset + Top.size - NullBytes, Top.offset + Top.size)
            = Zeros(NullBytes))
        => /\ Top.atom.terminating_null
           /\ write_end(Top.atom) = Zeros(NullBytes)

\* the bytes out with the header's type tag replaced by "free"
Retag(out) ==
    [i \in 1..Len(out) |->
        IF i > SizeBytes /\ i <= HeaderBytes THEN FreeKind[i - SizeBytes] ELSE out[i]]

\* C8: free() changes the atom's type tag to "free" and nothing else, and a
\* write after free() emits what a write before it emitted, with the type tag
\* of the header replaced by "free".
C8_FreeInPlace ==
    last.op = "free" =>
        LET a == AtomAt(last.before, last.path)
            b == AtomAt(movie, last.path)
        IN  /\ b = [a EXCEPT !.kind = FreeKind]
            /\ movie = ReplaceAt(last.before, last.path, b)
            /\ size(b) = size(a)
            /\ write(b, pos).raised = write(a, pos).raised
            /\ write(b, pos).out = Retag(write(a, pos).out)

\* C9: a recursive write of a structured atom uses the extended header form
\* exactly when extended_header is set or the size exceeds what the 4-byte field
\* holds, the size in the header is the number of bytes the write emits, and the
\* write-length check reports no mismatch.
C9_HeaderWidth ==
    (last.op = "write" /\ Written.cls # "PassthroughAtom")
        => /\ ~last.raised
           /\ (SubSeq(last.out, 1, SizeBytes) = pack(1, SizeBytes))
                 <=> (Written.extended_header
                        \/ size(Written) > Pow(Radix, SizeBytes) - 1)
           /\ Len(last.out) =
                 (IF SubSeq(last.out, 1, SizeBytes) = pack(1, SizeBytes)
                  THEN unpack(SubSeq(last.out, HeaderBytes + 1, HeaderBytes + ExtSizeBytes))
                  ELSE unpack(SubSeq(last.out, 1, SizeBytes)))
           /\ ~last.partial

====
